---- MODULE Spec2Model ----
(***************************************************************************)
(* A model of the yatzy application: the Score helpers and the Die widget  *)
(* of src/src/die.rs, and the application state, the ticker thread and the *)
(* command delegate of src/src/main.rs.                                    *)
(*                                                                         *)
(* Spec      the running application: ticker thread, command queue,        *)
(*           delegate, widget update, timers and paint.                    *)
(* SpecScore the Score functions applied to every u8 input.                *)
(***************************************************************************)
EXTENDS Integers, Sequences, FiniteSets, TLC

\* ------------------------------------------------------------------ bounds
\* Commands in flight between the submitting threads and the UI thread.
MaxQueue == 2
\* Timer tokens the toolkit hands out in one run (its counter is unbounded).
MaxTokens == 3

\* ------------------------------------------------------- program constants
\* Score wraps a u8.
U8Max == 255
\* InGameState.dice is [DieData; 5].
NumDice == 5
\* Option<TimerToken>::None (real tokens count up from 1).
NoTimer == 0

U8 == 0..U8Max
Dice == 0..(NumDice - 1)
\* The names the text box can hold; "" is the initial one.
Names == {"", "Alice"}

VARIABLES
    state,      \* the application data: YatzyState
    old_data,   \* the application data the widget tree saw last
    die,        \* the five Die widgets: rolling_timer, rolling_score
    timers,     \* timers requested and not yet fired, in deadline order
    next_token, \* the toolkit's timer token counter
    paint_req,  \* dice whose widget has requested a repaint
    queue,      \* commands submitted and not yet delivered to the delegate
    ticker_pc,  \* the ticker thread's position in its loop
    ret,        \* what Delegate::command returned last (<<>>: not called yet)
    panicked,   \* the process has panicked
    call        \* SpecScore: the last call of a Score function and its outcome

appvars == <<state, old_data, die, timers, next_token, paint_req, queue,
             ticker_pc, ret, panicked>>
vars == <<state, old_data, die, timers, next_token, paint_req, queue,
          ticker_pc, ret, panicked, call>>

\* ------------------------------------------------------------------- Score

\* rng.gen_range(low, hi): the half-open range [low, hi).
GenRange(low, hi) == low..(hi - 1)

\* Score::points, the arms for 0..6: the pip coordinates (x, y).
PointsTable(s) ==
    CASE s = 0 -> <<>>
      [] s = 1 -> << <<4, 4>> >>
      [] s = 2 -> << <<4, 3>>, <<4, 5>> >>
      [] s = 3 -> << <<4, 2>>, <<4, 4>>, <<4, 6>> >>
      [] s = 4 -> << <<2, 2>>, <<2, 6>>, <<6, 2>>, <<6, 6>> >>
      [] s = 5 -> << <<2, 2>>, <<2, 6>>, <<6, 2>>, <<6, 6>>, <<4, 4>> >>
      [] s = 6 -> << <<2, 2>>, <<2, 4>>, <<2, 6>>,
                     <<6, 2>>, <<6, 4>>, <<6, 6>> >>

\* Mutant: the face of 6 painted with the pips of 5.
PointsSixAsFive(s) ==
    IF s \in 0..6
    THEN [panicked |-> FALSE,
          points |-> IF s = 6 THEN PointsTable(5) ELSE PointsTable(s)]
    ELSE [panicked |-> TRUE, points |-> <<>>]

\* Mutant: a default arm that returns no pips instead of panicking.
PointsDefaultEmpty(s) ==
    [panicked |-> FALSE, points |-> IF s \in 0..6 THEN PointsTable(s) ELSE <<>>]

\* Score::points: the pip coordinates, or the panic of the last arm.
Points(s) ==
    IF s \in 0..6
    THEN [panicked |-> FALSE, points |-> PointsTable(s)]
    ELSE [panicked |-> TRUE, points |-> <<>>]

\* Score::random: the scores it can return.
Random(low, hi) == GenRange(low, hi)

\* Mutant: the die range starts at 0.
RandomDieFromZero == Random(0, 7)

\* Score::random_die.
RandomDie == Random(1, 7)

\* Mutant: the shift starts above the previous value (n > old).
DifferentRandomShiftAbove(old, low, hi) ==
    IF ~(low <= old /\ old <= hi)
    THEN [panicked |-> TRUE, scores |-> {}]
    ELSE [panicked |-> FALSE,
          scores |-> {IF n > old THEN n + 1 ELSE n : n \in GenRange(low, hi - 1)}]

\* Score::different_random: the assertion, then the scores it can return.
DifferentRandom(old, low, hi) ==
    IF ~(low <= old /\ old <= hi)
    THEN [panicked |-> TRUE, scores |-> {}]
    ELSE [panicked |-> FALSE,
          scores |-> {IF n >= old THEN n + 1 ELSE n : n \in GenRange(low, hi - 1)}]

\* Score::different_random_die.
DifferentRandomDie(old) == DifferentRandom(old, 1, 7)

\* --------------------------------------------------------- DieState, DieData

Value(score) == [tag |-> "Value", score |-> score]
Rolling == [tag |-> "Rolling"]

\* DieState::new.
DieStateNew(value) == Value(value)

\* DieState::is_rolling / DieData::is_rolling.
IsRolling(data) == data.state.tag = "Rolling"

\* DieData::new.
DieDataNew(value) == [state |-> DieStateNew(value), bright |-> TRUE]

\* DieData::set_rolling.
SetRolling(data) == [data EXCEPT !.state = Rolling]

\* DieData::set_value.
SetValue(data, value) == [data EXCEPT !.state = Value(value)]

\* ---------------------------------------------------------------- Die widget

\* Die::new: the widgets it can construct.
DieNew == {[rolling_timer |-> NoTimer, rolling_score |-> s] : s \in RandomDie}

\* Mutant: the widget always shows its own transient score.
DieScoreTransient(w, data) == w.rolling_score

\* Mutant: a rolling die keeps showing the score of a new die.
DieScoreLastSettled(w, data) ==
    IF data.state.tag = "Value" THEN data.state.score ELSE 6

\* Die::score: the score the widget paints.
DieScore(w, data) ==
    IF data.state.tag = "Value" THEN data.state.score ELSE w.rolling_score

\* Mutant: the rolling tick draws with random_die, so a score can repeat.
DieEventAnyScore(w, tok, data, fresh) ==
    IF w.rolling_timer # NoTimer /\ w.rolling_timer = tok
    THEN IF IsRolling(data)
         THEN {[widget |-> [rolling_timer |-> fresh, rolling_score |-> s],
                armed |-> TRUE, paint |-> TRUE, panicked |-> FALSE]
               : s \in RandomDie}
         ELSE {[widget |-> w, armed |-> FALSE, paint |-> TRUE,
                panicked |-> FALSE]}
    ELSE {[widget |-> w, armed |-> FALSE, paint |-> FALSE, panicked |-> FALSE]}

\* Mutant: the tick does not look at data.is_rolling() and always re-arms.
DieEventAlwaysRearms(w, tok, data, fresh) ==
    IF w.rolling_timer # NoTimer /\ w.rolling_timer = tok
    THEN LET r == DifferentRandomDie(w.rolling_score) IN
         IF r.panicked
         THEN {[widget |-> w, armed |-> FALSE, paint |-> FALSE,
                panicked |-> TRUE]}
         ELSE {[widget |-> [rolling_timer |-> fresh, rolling_score |-> s],
                armed |-> TRUE, paint |-> TRUE, panicked |-> FALSE]
               : s \in r.scores}
    ELSE {[widget |-> w, armed |-> FALSE, paint |-> FALSE, panicked |-> FALSE]}

\* Mutant: request_timer sits outside the is_rolling test, so a settled die
\* re-arms too.
DieEventRearmsWhenSettled(w, tok, data, fresh) ==
    IF w.rolling_timer # NoTimer /\ w.rolling_timer = tok
    THEN IF IsRolling(data)
         THEN LET r == DifferentRandomDie(w.rolling_score) IN
              IF r.panicked
              THEN {[widget |-> w, armed |-> FALSE, paint |-> FALSE,
                     panicked |-> TRUE]}
              ELSE {[widget |-> [rolling_timer |-> fresh, rolling_score |-> s],
                     armed |-> TRUE, paint |-> TRUE, panicked |-> FALSE]
                    : s \in r.scores}
         ELSE {[widget |-> [w EXCEPT !.rolling_timer = fresh], armed |-> TRUE,
                paint |-> TRUE, panicked |-> FALSE]}
    ELSE {[widget |-> w, armed |-> FALSE, paint |-> FALSE, panicked |-> FALSE]}

\* Mutant: the token guard is dropped, every timer event is handled.
DieEventNoTokenCheck(w, tok, data, fresh) ==
    IF IsRolling(data)
    THEN LET r == DifferentRandomDie(w.rolling_score) IN
         IF r.panicked
         THEN {[widget |-> w, armed |-> FALSE, paint |-> FALSE,
                panicked |-> TRUE]}
         ELSE {[widget |-> [rolling_timer |-> fresh, rolling_score |-> s],
                armed |-> TRUE, paint |-> TRUE, panicked |-> FALSE]
               : s \in r.scores}
    ELSE {[widget |-> w, armed |-> FALSE, paint |-> TRUE, panicked |-> FALSE]}

\* Mutant: request_paint is called only on the rolling path.
DieEventNoPaintWhenSettled(w, tok, data, fresh) ==
    IF w.rolling_timer # NoTimer /\ w.rolling_timer = tok
    THEN IF IsRolling(data)
         THEN LET r == DifferentRandomDie(w.rolling_score) IN
              IF r.panicked
              THEN {[widget |-> w, armed |-> FALSE, paint |-> FALSE,
                     panicked |-> TRUE]}
              ELSE {[widget |-> [rolling_timer |-> fresh, rolling_score |-> s],
                     armed |-> TRUE, paint |-> TRUE, panicked |-> FALSE]
                    : s \in r.scores}
         ELSE {[widget |-> w, armed |-> FALSE, paint |-> FALSE,
                panicked |-> FALSE]}
    ELSE {[widget |-> w, armed |-> FALSE, paint |-> FALSE, panicked |-> FALSE]}

\* Die::event on Event::Timer(tok): the outcomes it can have. `fresh` is the
\* token ctx.request_timer returns if it is called.
DieEvent(w, tok, data, fresh) ==
    IF w.rolling_timer # NoTimer /\ w.rolling_timer = tok
    THEN IF IsRolling(data)
         THEN LET r == DifferentRandomDie(w.rolling_score) IN
              IF r.panicked
              THEN {[widget |-> w, armed |-> FALSE, paint |-> FALSE,
                     panicked |-> TRUE]}
              ELSE {[widget |-> [rolling_timer |-> fresh, rolling_score |-> s],
                     armed |-> TRUE, paint |-> TRUE, panicked |-> FALSE]
                    : s \in r.scores}
         ELSE {[widget |-> w, armed |-> FALSE, paint |-> TRUE,
                panicked |-> FALSE]}
    ELSE {[widget |-> w, armed |-> FALSE, paint |-> FALSE, panicked |-> FALSE]}

\* Mutant: the (false, true) arm requests a repaint as the die settles.
DieUpdateRepaintsOnSettle(w, old, new, fresh) ==
    CASE IsRolling(new) /\ ~IsRolling(old) ->
            [widget |-> [w EXCEPT !.rolling_timer = fresh],
             armed |-> TRUE, paint |-> FALSE]
      [] ~IsRolling(new) /\ IsRolling(old) ->
            [widget |-> w, armed |-> FALSE, paint |-> TRUE]
      [] ~IsRolling(new) /\ ~IsRolling(old) ->
            [widget |-> w, armed |-> FALSE, paint |-> TRUE]
      [] IsRolling(new) /\ IsRolling(old) ->
            [widget |-> w, armed |-> FALSE, paint |-> FALSE]

\* Die::update: the match on (data.is_rolling(), old_data.is_rolling()).
DieUpdate(w, old, new, fresh) ==
    CASE IsRolling(new) /\ ~IsRolling(old) ->
            [widget |-> [w EXCEPT !.rolling_timer = fresh],
             armed |-> TRUE, paint |-> FALSE]
      [] ~IsRolling(new) /\ IsRolling(old) ->
            [widget |-> w, armed |-> FALSE, paint |-> FALSE]
      [] ~IsRolling(new) /\ ~IsRolling(old) ->
            [widget |-> w, armed |-> FALSE, paint |-> TRUE]
      [] IsRolling(new) /\ IsRolling(old) ->
            [widget |-> w, armed |-> FALSE, paint |-> FALSE]

\* Die::paint: it panics when Score::points does.
DiePaint(w, data) == Points(DieScore(w, data)).panicked

\* --------------------------------------------------------------- YatzyState

Starting(player_name) == [tag |-> "Starting", player_name |-> player_name]
InGame(player_name, dice) ==
    [tag |-> "InGame", player_name |-> player_name, dice |-> dice]

\* Mutant: the new game starts with the default (empty) player name.
StartGameDefaultName(st) ==
    LET d == DieDataNew(6) IN
    IF st.tag = "Starting"
    THEN [panicked |-> FALSE, state |-> InGame("", [i \in Dice |-> d])]
    ELSE [panicked |-> TRUE, state |-> st]

\* Mutant: start_game in a game starts a fresh game instead of panicking.
StartGameRestarts(st) ==
    LET d == DieDataNew(6) IN
    [panicked |-> FALSE, state |-> InGame(st.player_name, [i \in Dice |-> d])]

\* Mutant: start_game in a game goes back to the starting view.
StartGameToggles(st) ==
    LET d == DieDataNew(6) IN
    IF st.tag = "Starting"
    THEN [panicked |-> FALSE,
          state |-> InGame(st.player_name, [i \in Dice |-> d])]
    ELSE [panicked |-> FALSE, state |-> Starting(st.player_name)]

\* YatzyState::start_game.
StartGame(st) ==
    LET d == DieDataNew(6) IN
    IF st.tag = "Starting"
    THEN [panicked |-> FALSE,
          state |-> InGame(st.player_name, [i \in Dice |-> d])]
    ELSE [panicked |-> TRUE, state |-> st]

\* main: the initial application state.
InitialState == Starting("")

\* ----------------------------------------------------------------- commands

ROLL == [sel |-> "die.roll"]
STOP_ROLL(score) == [sel |-> "die.stop-roll", score |-> score]
START_GAME == [sel |-> "start-game"]
\* Any command of the toolkit that is none of the three.
UNRECOGNIZED == [sel |-> "other"]

\* Mutant: the roll and stop commands are wired to die 1.
DelegateCommandDieOne(cmd, data) ==
    IF cmd.sel = "die.roll"
    THEN [state |-> IF data.tag = "InGame"
                    THEN [data EXCEPT !.dice[1] = SetRolling(@)]
                    ELSE data,
          ret |-> FALSE, panicked |-> FALSE]
    ELSE IF cmd.sel = "start-game"
    THEN [state |-> StartGame(data).state,
          ret |-> FALSE, panicked |-> StartGame(data).panicked]
    ELSE IF cmd.sel = "die.stop-roll"
    THEN [state |-> IF data.tag = "InGame"
                    THEN [data EXCEPT !.dice[1] = SetValue(@, cmd.score)]
                    ELSE data,
          ret |-> FALSE, panicked |-> FALSE]
    ELSE [state |-> data, ret |-> TRUE, panicked |-> FALSE]

\* Mutant: a roll command outside a game panics instead of being ignored.
DelegateCommandRollPanics(cmd, data) ==
    IF cmd.sel = "die.roll"
    THEN [state |-> IF data.tag = "InGame"
                    THEN [data EXCEPT !.dice[0] = SetRolling(@)]
                    ELSE data,
          ret |-> FALSE, panicked |-> data.tag # "InGame"]
    ELSE IF cmd.sel = "start-game"
    THEN [state |-> StartGame(data).state,
          ret |-> FALSE, panicked |-> StartGame(data).panicked]
    ELSE IF cmd.sel = "die.stop-roll"
    THEN [state |-> IF data.tag = "InGame"
                    THEN [data EXCEPT !.dice[0] = SetValue(@, cmd.score)]
                    ELSE data,
          ret |-> FALSE, panicked |-> FALSE]
    ELSE [state |-> data, ret |-> TRUE, panicked |-> FALSE]

\* Mutant: the last arm returns false, so every command is consumed.
DelegateCommandConsumesAll(cmd, data) ==
    IF cmd.sel = "die.roll"
    THEN [state |-> IF data.tag = "InGame"
                    THEN [data EXCEPT !.dice[0] = SetRolling(@)]
                    ELSE data,
          ret |-> FALSE, panicked |-> FALSE]
    ELSE IF cmd.sel = "start-game"
    THEN [state |-> StartGame(data).state,
          ret |-> FALSE, panicked |-> StartGame(data).panicked]
    ELSE IF cmd.sel = "die.stop-roll"
    THEN [state |-> IF data.tag = "InGame"
                    THEN [data EXCEPT !.dice[0] = SetValue(@, cmd.score)]
                    ELSE data,
          ret |-> FALSE, panicked |-> FALSE]
    ELSE [state |-> data, ret |-> FALSE, panicked |-> FALSE]

\* Delegate::command: the new application data, the return value, and whether
\* it panicked.
DelegateCommand(cmd, data) ==
    IF cmd.sel = "die.roll"
    THEN [state |-> IF data.tag = "InGame"
                    THEN [data EXCEPT !.dice[0] = SetRolling(@)]
                    ELSE data,
          ret |-> FALSE, panicked |-> FALSE]
    ELSE IF cmd.sel = "start-game"
    THEN [state |-> StartGame(data).state,
          ret |-> FALSE, panicked |-> StartGame(data).panicked]
    ELSE IF cmd.sel = "die.stop-roll"
    THEN [state |-> IF data.tag = "InGame"
                    THEN [data EXCEPT !.dice[0] = SetValue(@, cmd.score)]
                    ELSE data,
          ret |-> FALSE, panicked |-> FALSE]
    ELSE [state |-> data, ret |-> TRUE, panicked |-> FALSE]

\* ------------------------------------------------------------------ actions

\* The UI thread has finished the update pass of the last data change.
UiIdle == ~panicked /\ old_data = state

\* The delegate handles command cmd; a panic ends the process where it is.
Dispatch(cmd) ==
    LET r == DelegateCommand(cmd, state) IN
    /\ panicked' = r.panicked
    /\ state' = r.state
    /\ ret' = IF r.panicked THEN ret ELSE <<r.ret>>

\* The ticker thread: sleep, submit ROLL.
TickerRoll ==
    /\ ~panicked
    /\ ticker_pc = "roll"
    /\ Len(queue) < MaxQueue
    /\ queue' = Append(queue, ROLL)
    /\ ticker_pc' = "stop"
    /\ UNCHANGED <<state, old_data, die, timers, next_token, paint_req, ret,
                   panicked, call>>

\* Mutant: the second half of the loop submits ROLL again.
TickerStopSubmitsRoll ==
    /\ ~panicked
    /\ ticker_pc = "stop"
    /\ Len(queue) < MaxQueue
    /\ queue' = Append(queue, ROLL)
    /\ ticker_pc' = "roll"
    /\ UNCHANGED <<state, old_data, die, timers, next_token, paint_req, ret,
                   panicked, call>>

\* The ticker thread: sleep, submit STOP_ROLL with Score::random_die().
TickerStop ==
    /\ ~panicked
    /\ ticker_pc = "stop"
    /\ Len(queue) < MaxQueue
    /\ \E s \in RandomDie : queue' = Append(queue, STOP_ROLL(s))
    /\ ticker_pc' = "roll"
    /\ UNCHANGED <<state, old_data, die, timers, next_token, paint_req, ret,
                   panicked, call>>

\* The "Start game!" button of the starting view is clicked.
ClickStartGame ==
    /\ UiIdle
    /\ state.tag = "Starting"
    /\ Len(queue) < MaxQueue
    /\ queue' = Append(queue, START_GAME)
    /\ UNCHANGED <<state, old_data, die, timers, next_token, paint_req,
                   ticker_pc, ret, panicked, call>>

\* The text box of the starting view edits player_name through its lens.
EditName ==
    /\ UiIdle
    /\ state.tag = "Starting"
    /\ \E n \in Names \ {state.player_name} : state' = Starting(n)
    /\ UNCHANGED <<old_data, die, timers, next_token, paint_req, queue,
                   ticker_pc, ret, panicked, call>>

\* The UI thread delivers the oldest submitted command to the delegate.
Command ==
    /\ UiIdle
    /\ queue # <<>>
    /\ Dispatch(Head(queue))
    /\ queue' = Tail(queue)
    /\ UNCHANGED <<old_data, die, timers, next_token, paint_req, ticker_pc,
                   call>>

\* The toolkit delivers a command of its own to the delegate.
OtherCommand ==
    /\ UiIdle
    /\ Dispatch(UNRECOGNIZED)
    /\ UNCHANGED <<old_data, die, timers, next_token, paint_req, queue,
                   ticker_pc, call>>

RECURSIVE UpdateDice(_, _, _, _)
\* The update pass over dice i, i+1, ...: Die::update for each die whose data
\* changed (the lens wrapper skips a child whose data is the same).
UpdateDice(i, old, new, acc) ==
    IF i = NumDice THEN acc
    ELSE IF old[i] = new[i] THEN UpdateDice(i + 1, old, new, acc)
    ELSE LET u == DieUpdate(acc.die[i], old[i], new[i], acc.next_token) IN
         UpdateDice(i + 1, old, new,
            [die |-> [acc.die EXCEPT ![i] = u.widget],
             timers |-> IF u.armed
                        THEN Append(acc.timers,
                                    [widget |-> i, token |-> acc.next_token])
                        ELSE acc.timers,
             next_token |-> IF u.armed THEN acc.next_token + 1
                            ELSE acc.next_token,
             paint_req |-> IF u.paint THEN acc.paint_req \cup {i}
                           ELSE acc.paint_req])

\* The toolkit's update pass after the application data changed. The dice
\* widgets belong to the in-game view: they are first shown (and painted) when
\* the data becomes InGame, and updated on every later change.
Update ==
    /\ ~panicked
    /\ old_data # state
    /\ LET acc == [die |-> die, timers |-> timers, next_token |-> next_token,
                   paint_req |-> paint_req]
           r == IF state.tag = "InGame" /\ old_data.tag = "InGame"
                THEN UpdateDice(0, old_data.dice, state.dice, acc)
                ELSE IF state.tag = "InGame"
                THEN [acc EXCEPT !.paint_req = Dice]
                ELSE acc
       IN /\ r.next_token <= MaxTokens + 1
          /\ die' = r.die
          /\ timers' = r.timers
          /\ next_token' = r.next_token
          /\ paint_req' = r.paint_req
    /\ old_data' = state
    /\ UNCHANGED <<state, queue, ticker_pc, ret, panicked, call>>

\* The earliest timer fires: Event::Timer goes to the widget that asked for it.
Timer ==
    /\ UiIdle
    /\ timers # <<>>
    /\ state.tag = "InGame"
    /\ LET t == Head(timers) IN
       \E r \in DieEvent(die[t.widget], t.token, state.dice[t.widget],
                         next_token) :
          /\ r.armed => next_token <= MaxTokens
          /\ panicked' = r.panicked
          /\ die' = [die EXCEPT ![t.widget] = r.widget]
          /\ timers' = IF r.armed
                       THEN Append(Tail(timers),
                                   [widget |-> t.widget, token |-> next_token])
                       ELSE Tail(timers)
          /\ next_token' = IF r.armed THEN next_token + 1 ELSE next_token
          /\ paint_req' = IF r.paint THEN paint_req \cup {t.widget}
                          ELSE paint_req
    /\ UNCHANGED <<state, old_data, queue, ticker_pc, ret, call>>

\* The toolkit paints the widgets that requested it.
Paint ==
    /\ UiIdle
    /\ paint_req # {}
    /\ state.tag = "InGame"
    /\ LET bad == \E i \in paint_req : DiePaint(die[i], state.dice[i]) IN
       /\ panicked' = bad
       /\ paint_req' = IF bad THEN paint_req ELSE {}
    /\ UNCHANGED <<state, old_data, die, timers, next_token, queue, ticker_pc,
                   ret, call>>

\* No Score function has been called.
NoCall == [fn |-> "none", arg |-> 0, panicked |-> FALSE, result |-> <<>>]

\* build_in_game: the five Die widgets, Die::new() each. The draws explored
\* are the six in which the widgets start from the same score (6 of the 6^5);
\* die 0 redraws its score at every rolling tick.
InitDice == {d \in [Dice -> DieNew] : \A i \in Dice : d[i] = d[0]}

\* The state after main has built the window and the initial data.
InitApp ==
    /\ state = InitialState
    /\ old_data = InitialState
    /\ die \in InitDice
    /\ timers = <<>>
    /\ next_token = 1
    /\ paint_req = {}
    /\ queue = <<>>
    /\ ticker_pc = "roll"
    /\ ret = <<>>
    /\ panicked = FALSE

Init == InitApp /\ call = NoCall

Next ==
    \/ TickerRoll
    \/ TickerStop
    \/ ClickStartGame
    \/ EditName
    \/ Command
    \/ OtherCommand
    \/ Update
    \/ Timer
    \/ Paint

Spec == Init /\ [][Next]_vars

\* The toolkit's event loop: a timer that is due is eventually delivered, and
\* the update pass after a data change eventually runs.
SpecFair == Init /\ [][Next]_vars /\ WF_vars(Timer) /\ WF_vars(Update)

\* --------------------------------------------- the Score functions on any u8

\* Score(s).points() for any u8 s.
CallPoints ==
    /\ \E s \in U8 :
          LET r == Points(s) IN
          call' = [fn |-> "points", arg |-> s, panicked |-> r.panicked,
                   result |-> IF r.panicked THEN <<>> ELSE <<r.points>>]
    /\ UNCHANGED appvars

\* Score(s).different_random_die() for any u8 s.
CallDifferentRandomDie ==
    /\ \E s \in U8 :
          LET r == DifferentRandomDie(s) IN
          IF r.panicked
          THEN call' = [fn |-> "different_random_die", arg |-> s,
                        panicked |-> TRUE, result |-> <<>>]
          ELSE \E v \in r.scores :
                  call' = [fn |-> "different_random_die", arg |-> s,
                           panicked |-> FALSE, result |-> <<v>>]
    /\ UNCHANGED appvars

\* The application does not run under SpecScore: one of its initial states.
InitScore ==
    /\ InitApp
    /\ \A i \in Dice : die[i].rolling_score = 1
    /\ call = NoCall

NextScore ==
    \/ CallPoints
    \/ CallDifferentRandomDie

SpecScore == InitScore /\ [][NextScore]_vars

\* ------------------------------------------------------------------ claims

\* C1: for a previous score s in 1..6, different_random_die does not panic and
\* returns a score in {1..6} \ {s}, and every one of those five scores is a
\* possible result.
C1_DifferentRandomDieIsTheOtherFive ==
    (call.fn = "different_random_die" /\ call.arg \in 1..6) =>
        /\ ~call.panicked
        /\ Len(call.result) = 1
        /\ call.result[1] \in (1..6) \ {call.arg}
        /\ DifferentRandomDie(call.arg).scores = (1..6) \ {call.arg}

\* C1 witness: previous score 3 gave 4, the sample 3 shifted up by one.
C1_Witness ==
    /\ call.fn = "different_random_die"
    /\ call.arg = 3
    /\ call.result = <<4>>

\* C2 as claimed: different_random_die panics on every previous value outside
\* 1..6 and returns a score only for a previous value in 1..6.
C2_PanicsOutsideOneToSix ==
    call.fn = "different_random_die" =>
        /\ call.arg \notin 1..6 => (call.panicked /\ call.result = <<>>)
        /\ call.result # <<>> => call.arg \in 1..6

\* C9: for s in 0..6, points returns exactly s coordinates, all distinct, each
\* inside the 9x9 grid.
C9_PointsCountDistinctInGrid ==
    (call.fn = "points" /\ call.arg \in 0..6) =>
        /\ ~call.panicked
        /\ Len(call.result) = 1
        /\ LET pts == call.result[1] IN
           /\ Len(pts) = call.arg
           /\ Cardinality({pts[k] : k \in 1..Len(pts)}) = Len(pts)
           /\ \A k \in 1..Len(pts) :
                 /\ Len(pts[k]) = 2
                 /\ pts[k][1] \in 0..8
                 /\ pts[k][2] \in 0..8

\* C9 witness: the six pips of score 6 have been returned.
C9_Witness ==
    /\ call.fn = "points"
    /\ call.arg = 6
    /\ call.result # <<>>
    /\ Len(call.result[1]) = 6

\* C10: for every score outside 0..6, points panics and returns nothing.
C10_PointsPanicsAboveSix ==
    (call.fn = "points" /\ call.arg \notin 0..6) =>
        (call.panicked /\ call.result = <<>>)

\* C10 witness: points(255) has panicked.
C10_Witness ==
    /\ call.fn = "points"
    /\ call.arg = 255
    /\ call.panicked

\* A step in which the delegate handles the command at the head of the queue
\* (the only step that removes a command).
Handles(sel) ==
    /\ UiIdle
    /\ queue # <<>>
    /\ Head(queue).sel = sel
    /\ queue' = Tail(queue)

\* A step in which the earliest timer fires (outside the update pass, which
\* only adds timers, nothing else changes them).
TimerFires == UiIdle /\ timers # <<>> /\ timers' # timers

\* The dice of a new game: DieData with Settled(6), bright.
FreshDie == [state |-> [tag |-> "Value", score |-> 6], bright |-> TRUE]

\* C3: handling start-game in Starting{n} yields exactly InGame{n, five dice
\* Settled(6), bright}, without a panic.
C3_StartGameFromStarting ==
    [][(Handles("start-game") /\ state.tag = "Starting") =>
          /\ ~panicked'
          /\ state' = [tag |-> "InGame", player_name |-> state.player_name,
                       dice |-> [i \in 0..4 |-> FreshDie]]]_vars

\* C3 witness: start-game has just turned Starting{"Alice"} into the game (the
\* widgets have not seen the new data yet).
C3_Witness ==
    /\ old_data = [tag |-> "Starting", player_name |-> "Alice"]
    /\ state.tag = "InGame"
    /\ state.player_name = "Alice"
    /\ \A i \in 0..4 : state.dice[i] = FreshDie
    /\ ~panicked

\* C4: handling start-game while InGame panics, and the game is not replaced.
C4_StartGameInGamePanics ==
    [][(Handles("start-game") /\ state.tag = "InGame") =>
          (panicked' /\ state' = state)]_vars

\* C4 witness: the process panicked in Alice's game, which is still there.
C4_Witness ==
    /\ panicked
    /\ state.tag = "InGame"
    /\ state.player_name = "Alice"

\* C5: once InGame, the state is never Starting again and the player name
\* never changes.
C5_InGameIsOneWay ==
    [][state.tag = "InGame" =>
          (state'.tag = "InGame" /\ state'.player_name = state.player_name)]_vars

\* C5 witness: Alice's game after a roll was stopped on 3, its timers have
\* fired, and an unrecognized command was handled last.
C5_Witness ==
    /\ state.tag = "InGame"
    /\ state.player_name = "Alice"
    /\ state.dice[0].state = [tag |-> "Value", score |-> 3]
    /\ next_token > 1
    /\ timers = <<>>
    /\ ret = <<TRUE>>

\* C6: handling stop-roll(S) in a game leaves die 0 Settled(S), which the
\* widget resolves to S whatever its transient score; and a timer that fires
\* changes neither the dice nor, for a settled die 0, the score it resolves to.
C6_StopRollSettlesDieZero ==
    [][/\ (Handles("die.stop-roll") /\ state.tag = "InGame") =>
             /\ state'.dice[0].state =
                   [tag |-> "Value", score |-> Head(queue).score]
             /\ DieScore(die'[0], state'.dice[0]) = Head(queue).score
       /\ TimerFires =>
             /\ state' = state
             /\ state.dice[0].state.tag = "Value" =>
                   DieScore(die'[0], state'.dice[0]) = state.dice[0].state.score
      ]_vars

\* C6 witness: die 0 is Settled(4) after rolling, its widget has seen it, the
\* timer chain has run out after at least two timers, and the transient score
\* the widget holds is not 4.
C6_Witness ==
    /\ state.tag = "InGame"
    /\ old_data = state
    /\ state.dice[0].state = [tag |-> "Value", score |-> 4]
    /\ die[0].rolling_timer >= 2
    /\ timers = <<>>
    /\ die[0].rolling_score # 4
    /\ DieScore(die[0], state.dice[0]) = 4

\* C7: in every InGame state dice 1..4 are as the game started them:
\* Settled(6), bright, never Rolling.
C7_DiceOneToFourUntouched ==
    state.tag = "InGame" => \A i \in 1..4 : state.dice[i] = FreshDie

\* C7 witness: a game in which die 0 has rolled and settled on 2 and every
\* timer token of the run has been used.
C7_Witness ==
    /\ state.tag = "InGame"
    /\ state.dice[0].state = [tag |-> "Value", score |-> 2]
    /\ next_token = MaxTokens + 1
    /\ \A i \in 1..4 : state.dice[i] = FreshDie

\* C8: in Starting, a begin-roll or stop-roll command changes nothing: the
\* state is the same Starting, nothing panics, no timer is armed, no widget
\* changes, no repaint is requested.
C8_RollAndStopIgnoredInStarting ==
    [][((Handles("die.roll") \/ Handles("die.stop-roll"))
            /\ state.tag = "Starting") =>
          /\ state' = state
          /\ ~panicked'
          /\ ret' = <<FALSE>>
          /\ UNCHANGED <<die, timers, next_token, paint_req>>]_vars

\* C8 witness: still Starting after the ticker's roll and stop commands have
\* both been handled (nothing is queued, the last command was consumed).
C8_Witness ==
    /\ state.tag = "Starting"
    /\ ticker_pc = "roll"
    /\ queue = <<>>
    /\ ret = <<FALSE>>
    /\ ~panicked
    /\ timers = <<>>
    /\ next_token = 1

\* A step in which the delegate handles a command that did not come from the
\* queue (the queue holds only the three recognized commands): the return
\* value recorded changes and the queue does not.
HandlesUnrecognized == UiIdle /\ queue' = queue /\ ret' # ret

\* The timer that fires next goes to widget HeadWidget with token HeadToken.
HeadWidget == Head(timers).widget
HeadToken == Head(timers).token

\* A step in which a timer fires that carries its widget's current token.
CurrentTimerFires ==
    TimerFires /\ die[HeadWidget].rolling_timer = HeadToken

\* A step in which a timer fires whose token is not its widget's current one.
OtherTimerFires ==
    TimerFires /\ die[HeadWidget].rolling_timer # HeadToken

\* C11: an unrecognized command leaves the application state, the widgets and
\* the timers unchanged, does not panic and is passed on (true); each of the
\* three recognized commands that returns is consumed (false).
C11_UnrecognizedPassedThrough ==
    [][/\ HandlesUnrecognized =>
             /\ ret' = <<TRUE>>
             /\ ~panicked'
             /\ UNCHANGED <<state, old_data, die, timers, next_token,
                            paint_req, ticker_pc>>
       /\ ((Handles("die.roll") \/ Handles("die.stop-roll")
               \/ Handles("start-game")) /\ ~panicked') =>
             ret' = <<FALSE>>
      ]_vars

\* C11 witness: an unrecognized command was handled last, in a game whose die
\* 0 is rolling with its timer pending.
C11_Witness ==
    /\ ret = <<TRUE>>
    /\ state.tag = "InGame"
    /\ state.dice[0].state = [tag |-> "Rolling"]
    /\ timers # <<>>
    /\ ~panicked

\* C12: when a timer with the widget's current token fires while the die is
\* Rolling, the widget takes a score in 1..6 other than the one it held, arms
\* exactly one new timer whose token it stores, and requests a repaint. A timer
\* event whose token is not the current one (or with no token stored) changes
\* nothing.
C12_RollingTick ==
    [][/\ (CurrentTimerFires /\ state.dice[HeadWidget].state.tag = "Rolling") =>
             /\ die'[HeadWidget].rolling_score
                   \in (1..6) \ {die[HeadWidget].rolling_score}
             /\ die'[HeadWidget].rolling_timer = next_token
             /\ die'[HeadWidget].rolling_timer # HeadToken
             /\ next_token' = next_token + 1
             /\ timers' = Append(Tail(timers),
                                 [widget |-> HeadWidget, token |-> next_token])
             /\ HeadWidget \in paint_req'
             /\ \A i \in 0..4 : i # HeadWidget => die'[i] = die[i]
             /\ ~panicked'
       /\ OtherTimerFires =>
             /\ timers' = Tail(timers)
             /\ UNCHANGED <<state, die, next_token, paint_req, panicked>>
       /\ state.tag = "InGame" =>
             \A i \in 0..4 : \A tok \in 1..(MaxTokens + 1) :
                die[i].rolling_timer # tok =>
                   DieEvent(die[i], tok, state.dice[i], next_token) =
                      {[widget |-> die[i], armed |-> FALSE, paint |-> FALSE,
                        panicked |-> FALSE]}
      ]_vars

\* C12 witness: die 0 is rolling after a tick: its score is no longer the one
\* every widget started with, the one pending timer carries its token, and a
\* repaint is requested.
C12_Witness ==
    /\ state.tag = "InGame"
    /\ old_data = state
    /\ state.dice[0].state = [tag |-> "Rolling"]
    /\ die[0].rolling_score # die[1].rolling_score
    /\ timers = <<[widget |-> 0, token |-> die[0].rolling_timer]>>
    /\ die[0].rolling_timer = next_token - 1
    /\ 0 \in paint_req

\* C13: when a timer with the current token fires after the die has settled,
\* the widget arms no timer and keeps its score and token; the data is not
\* changed. Handling stop-roll itself leaves the pending timer and the widget
\* alone: the animation ends at the tick, not at the command.
C13_StaleTick ==
    [][/\ (CurrentTimerFires /\ state.dice[HeadWidget].state.tag = "Value") =>
             /\ timers' = Tail(timers)
             /\ UNCHANGED <<state, die, next_token, panicked>>
       /\ (Handles("die.stop-roll") /\ state.tag = "InGame") =>
             UNCHANGED <<die, timers, next_token>>
       /\ (old_data # state /\ old_data' = state /\ state.tag = "InGame"
              /\ state.dice[0].state.tag = "Value") =>
             UNCHANGED <<die, timers, next_token>>
      ]_vars

\* C13 witness: die 0 is settled on 5 after a tick had changed its score; the
\* last token issued is its current one and is no longer pending, so it fired
\* after the settle.
C13_Witness ==
    /\ state.tag = "InGame"
    /\ old_data = state
    /\ state.dice[0].state = [tag |-> "Value", score |-> 5]
    /\ die[0].rolling_score # die[1].rolling_score
    /\ die[0].rolling_timer = next_token - 1
    /\ die[0].rolling_timer # 0
    /\ timers = <<>>

\* Die 0 of a running game is settled.
DieZeroSettled == state.tag = "InGame" /\ state.dice[0].state.tag = "Value"

\* C14: nothing but its firing removes a timer; while die 0 is settled every
\* timer that fires is gone without a successor, the fire that carries the
\* current token (the wasted tick) leaves no timer pending, and, unless a
\* begin-roll is handled, eventually no timer is pending.
C14_TickChainEnds ==
    /\ [][/\ Len(timers') < Len(timers) => TimerFires
          /\ (TimerFires /\ DieZeroSettled) =>
                /\ timers' = Tail(timers)
                /\ next_token' = next_token
                /\ CurrentTimerFires => timers' = <<>>
         ]_vars
    /\ (DieZeroSettled ~> (timers = <<>> \/ ~DieZeroSettled \/ panicked))

\* C14 witness: die 0 settled on 1 with its current timer still pending (the
\* wasted tick is yet to fire) after a rolling tick.
C14_Witness ==
    /\ state.tag = "InGame"
    /\ old_data = state
    /\ state.dice[0].state = [tag |-> "Value", score |-> 1]
    /\ die[0].rolling_score # die[1].rolling_score
    /\ timers = <<[widget |-> 0, token |-> die[0].rolling_timer]>>
    /\ ~panicked

\* A step of the update pass in a running game.
UpdatesGame ==
    /\ ~panicked
    /\ old_data # state
    /\ old_data' = state
    /\ old_data.tag = "InGame"
    /\ state.tag = "InGame"

\* Every DieData: Rolling or Settled(1..6), bright or not.
AnyDieData ==
    {[state |-> s, bright |-> b] :
        s \in {[tag |-> "Rolling"]}
                 \cup {[tag |-> "Value", score |-> k] : k \in 1..6},
        b \in BOOLEAN}

\* C15: update reacts to the (old, new) rolling status only. Settled -> Rolling
\* arms one timer, stores its token, requests no repaint; Rolling -> Settled
\* does nothing; Settled -> Settled requests a repaint and arms nothing;
\* Rolling -> Rolling does nothing. The rolling score is never changed.
C15_UpdateByRollingStatus ==
    [][UpdatesGame =>
          /\ \A o \in AnyDieData : \A n \in AnyDieData :
                LET u == DieUpdate(die[0], o, n, next_token)
                    wasRolling == o.state.tag = "Rolling"
                    isRolling == n.state.tag = "Rolling"
                IN /\ u.widget.rolling_score = die[0].rolling_score
                   /\ u.armed = (isRolling /\ ~wasRolling)
                   /\ u.paint = (~isRolling /\ ~wasRolling)
                   /\ u.armed => u.widget.rolling_timer = next_token
                   /\ ~u.armed => u.widget = die[0]
          /\ LET wasRolling == old_data.dice[0].state.tag = "Rolling"
                 isRolling == state.dice[0].state.tag = "Rolling"
             IN /\ \A i \in 0..4 :
                      die'[i].rolling_score = die[i].rolling_score
                /\ (isRolling /\ ~wasRolling) =>
                      /\ timers' = Append(timers, [widget |-> 0,
                                                   token |-> next_token])
                      /\ die'[0].rolling_timer = next_token
                      /\ next_token' = next_token + 1
                      /\ paint_req' = paint_req
                /\ (~isRolling /\ wasRolling) =>
                      UNCHANGED <<die, timers, next_token, paint_req>>
                /\ (~isRolling /\ ~wasRolling) =>
                      /\ paint_req' = paint_req \cup {0}
                      /\ UNCHANGED <<die, timers, next_token>>
      ]_vars

\* C15 witness: the update pass has seen die 0 go Settled -> Rolling for the
\* first time: token 1 is stored and pending, and no repaint is requested.
C15_Witness ==
    /\ state.tag = "InGame"
    /\ old_data = state
    /\ state.dice[0].state = [tag |-> "Rolling"]
    /\ die[0].rolling_timer = 1
    /\ next_token = 2
    /\ timers = <<[widget |-> 0, token |-> 1]>>
    /\ paint_req = {}

\* C16: the score a die resolves to is the settled score when the state is
\* Settled(s) and the widget's rolling score when it is Rolling; it is one
\* score of 1..6 in every state of a game, and depends on nothing else (not
\* on the timer token, not on bright).
C16_DisplayedScore ==
    state.tag = "InGame" =>
        \A i \in 0..4 :
           LET d == state.dice[i]
               v == DieScore(die[i], d)
           IN /\ d.state.tag = "Value" => v = d.state.score
              /\ d.state.tag = "Rolling" => v = die[i].rolling_score
              /\ v \in 1..6
              /\ \A tok \in 0..(MaxTokens + 1) : \A b \in BOOLEAN :
                    DieScore([die[i] EXCEPT !.rolling_timer = tok],
                             [d EXCEPT !.bright = b]) = v

\* C16 witness: die 0 is rolling and resolves to a transient score that is not
\* the one the widgets started with, and that has been painted.
C16_Witness ==
    /\ state.tag = "InGame"
    /\ old_data = state
    /\ state.dice[0].state = [tag |-> "Rolling"]
    /\ die[0].rolling_score # die[1].rolling_score
    /\ DieScore(die[0], state.dice[0]) = die[0].rolling_score
    /\ paint_req = {}
    /\ ~panicked

\* The ticker's commands among those queued, oldest first.
IsTickerCommand(c) == c.sel \in {"die.roll", "die.stop-roll"}
TickerCommands == SelectSeq(queue, IsTickerCommand)

\* The selector of the ticker command the delegate will handle next: the
\* oldest one queued, or else the one the ticker submits next.
NextTickerCommand ==
    IF TickerCommands # <<>> THEN Head(TickerCommands).sel
    ELSE IF ticker_pc = "roll" THEN "die.roll" ELSE "die.stop-roll"

\* The ticker's queued commands alternate, end with the one the ticker
\* submitted last, and every stop-roll carries a score of 1..6.
TickerQueueAlternates ==
    LET T == TickerCommands IN
    /\ \A k \in 1..(Len(T) - 1) : T[k].sel # T[k + 1].sel
    /\ T # <<>> => ((T[Len(T)].sel = "die.roll") = (ticker_pc = "stop"))
    /\ \A k \in 1..Len(T) :
          T[k].sel = "die.stop-roll" => T[k].score \in 1..6

\* C17: the ticker submits begin-roll, stop-roll(S in 1..6), begin-roll, ...
\* starting with begin-roll, touching nothing but the queue; the delegate
\* handles the oldest command first, so after a begin-roll the next ticker
\* command it handles is a stop-roll and after a stop-roll a begin-roll, and a
\* begin-roll never reaches a die that is still rolling.
C17_TickerAlternates ==
    /\ NextTickerCommand = "die.roll"
    /\ [][/\ TickerQueueAlternates'
          /\ ticker_pc' # ticker_pc =>
                /\ UNCHANGED <<state, old_data, die, timers, next_token,
                               paint_req, ret, panicked>>
                /\ Len(queue') = Len(queue) + 1
                /\ SubSeq(queue', 1, Len(queue)) = queue
                /\ queue'[Len(queue')].sel =
                      (IF ticker_pc = "roll" THEN "die.roll"
                       ELSE "die.stop-roll")
          /\ Len(queue') < Len(queue) =>
                /\ queue' = Tail(queue)
                /\ state' = DelegateCommand(Head(queue), state).state
          /\ Handles("die.roll") =>
                /\ NextTickerCommand = "die.roll"
                /\ NextTickerCommand' = "die.stop-roll"
                /\ state.tag = "InGame" => state.dice[0].state.tag = "Value"
          /\ Handles("die.stop-roll") =>
                /\ NextTickerCommand = "die.stop-roll"
                /\ NextTickerCommand' = "die.roll"
          /\ (state'.tag = "InGame" /\ state'.dice[0].state.tag = "Rolling") =>
                NextTickerCommand' = "die.stop-roll"
         ]_vars

\* C17 witness: a game in which a begin-roll and then stop-roll(3) have been
\* handled, with the ticker's next begin-roll and stop-roll(5) queued in that
\* order.
C17_Witness ==
    /\ state.tag = "InGame"
    /\ state.dice[0].state = [tag |-> "Value", score |-> 3]
    /\ die[0].rolling_timer # 0
    /\ queue = <<[sel |-> "die.roll"], [sel |-> "die.stop-roll", score |-> 5]>>
    /\ ticker_pc = "roll"

\* Every score the running system holds is a die face: each widget's
\* rolling score, each settled value, and each score a queued stop-roll will
\* settle; so neither different_random's assertion nor points' default arm
\* can be reached from it.
ScoresInRange ==
    /\ \A i \in Dice :
          /\ die[i].rolling_score \in 1..6
          /\ ~DifferentRandomDie(die[i].rolling_score).panicked
          /\ DifferentRandomDie(die[i].rolling_score).scores \subseteq 1..6
    /\ state.tag = "InGame" =>
          \A i \in Dice :
             /\ state.dice[i].state.tag = "Value" =>
                   state.dice[i].state.score \in 1..6
             /\ ~DiePaint(die[i], state.dice[i])
    /\ \A k \in 1..Len(queue) :
          queue[k].sel = "die.stop-roll" => queue[k].score \in 1..6

\* C18: in every reachable state the rolling scores and the settled values
\* are in 1..6, so different_random's assertion and points' panic never
\* trigger; the only step that panics is start-game handled while InGame.
C18_ScoresStayInRange ==
    /\ ScoresInRange
    /\ [][/\ ScoresInRange'
          /\ (panicked' /\ ~panicked) =>
                (Handles("start-game") /\ state.tag = "InGame")
         ]_vars

\* C18 witness: die 0 is rolling, its rolling score has moved off its initial
\* value through as many ticks as the token bound allows, every repaint has
\* been served, and nothing has panicked.
C18_Witness ==
    /\ state.tag = "InGame"
    /\ state.dice[0].state.tag = "Rolling"
    /\ die[0].rolling_score # die[1].rolling_score
    /\ next_token = MaxTokens + 1
    /\ paint_req = {}
    /\ ~panicked

\* The pending timers of die i that carry its widget's current token.
LiveTimers(i) ==
    {k \in 1..Len(timers) :
        timers[k] = [widget |-> i, token |-> die[i].rolling_timer]}

\* At most one live timer per die, and exactly one for a die that is Rolling
\* once its update has been processed.
OneTickChain ==
    \A i \in Dice :
       /\ Cardinality(LiveTimers(i)) <= 1
       /\ (state.tag = "InGame" /\ old_data = state
             /\ state.dice[i].state.tag = "Rolling") =>
             Cardinality(LiveTimers(i)) = 1

\* C19: each die has at most one live tick chain: at most one pending timer
\* carries the current token, exactly one while the die is Rolling and
\* updated; the update that starts a roll arms a timer whose token no pending
\* timer carries, and the fire of a timer with an overwritten token is
\* ignored.
C19_OneLiveTickChain ==
    /\ OneTickChain
    /\ [][/\ OneTickChain'
          /\ (UpdatesGame /\ state.tag = "InGame"
                /\ state.dice[0].state.tag = "Rolling"
                /\ old_data.tag = "InGame"
                /\ old_data.dice[0].state.tag = "Value") =>
                /\ \A k \in 1..Len(timers) :
                      timers[k].token # die'[0].rolling_timer
                /\ timers' = Append(timers, [widget |-> 0,
                                             token |-> die'[0].rolling_timer])
          /\ OtherTimerFires =>
                /\ timers' = Tail(timers)
                /\ UNCHANGED <<die, paint_req, next_token, state, panicked>>
         ]_vars

\* C19 witness: die 0 went Rolling -> Settled -> Rolling before its first
\* timer fired: two timers are pending, the earlier with the overwritten
\* token, the later with the current one.
C19_Witness ==
    /\ state.tag = "InGame"
    /\ old_data = state
    /\ state.dice[0].state.tag = "Rolling"
    /\ timers = <<[widget |-> 0, token |-> 1], [widget |-> 0, token |-> 2]>>
    /\ die[0].rolling_timer = 2

\* Die 0's data in the previous update pass was Rolling.
WasRolling == old_data.tag = "InGame" /\ old_data.dice[0].state.tag = "Rolling"

\* A step in which the controller of die 0 requests a redraw.
RequestsPaint == 0 \in paint_req' /\ 0 \notin paint_req

\* C20: the update for Rolling -> Settled(S) requests no redraw; the fire of
\* die 0's current timer while it is settled on S requests one, re-arms
\* nothing and leaves the displayed score at S, and no other step requests a
\* redraw of a die that settled out of a roll; the update for a begin-roll
\* handled first leaves the earlier timers with an overwritten token, whose
\* fires request nothing. With the timer and the update pass served fairly, a
\* settled die whose current timer is pending gets its redraw requested
\* unless a begin-roll is handled first.
C20_SettledScorePainted ==
    /\ [][/\ (UpdatesGame /\ WasRolling /\ DieZeroSettled) =>
                /\ ~RequestsPaint
                /\ UNCHANGED <<die, timers, next_token, paint_req>>
          /\ (CurrentTimerFires /\ DieZeroSettled) =>
                /\ 0 \in paint_req'
                /\ timers' = Tail(timers)
                /\ next_token' = next_token
                /\ LiveTimers(0)' = {}
                /\ state' = state
                /\ DieScore(die'[0], state'.dice[0]) = state.dice[0].state.score
          /\ (RequestsPaint /\ DieZeroSettled') =>
                (CurrentTimerFires \/ (old_data # state /\ ~WasRolling))
          /\ (UpdatesGame /\ ~WasRolling /\ ~DieZeroSettled) =>
                LiveTimers(0)' = {Len(timers')}
          /\ OtherTimerFires => paint_req' = paint_req
         ]_vars
    /\ ((DieZeroSettled /\ LiveTimers(0) # {} /\ 0 \notin paint_req)
          ~> \/ (DieZeroSettled /\ LiveTimers(0) = {} /\ 0 \in paint_req)
             \/ ~DieZeroSettled
             \/ panicked)

\* C20 witness: die 0 was rolled and settled on 4 before any rolling tick,
\* its timer then fired, and the redraw that fire requested is pending.
C20_Witness ==
    /\ state.tag = "InGame"
    /\ old_data = state
    /\ state.dice[0].state = [tag |-> "Value", score |-> 4]
    /\ die[0].rolling_score = die[1].rolling_score
    /\ die[0].rolling_timer # 0
    /\ timers = <<>>
    /\ paint_req = {0}
    /\ ~panicked

====
